---- MODULE Spec2Model ----
(***************************************************************************)
(* Model of the Groq-Firecrawl MCP server: the lifespan manager, the two   *)
(* upstream clients, the three resource handlers and the four tools.       *)
(* Every network call is a suspension point: a handler runs atomically     *)
(* from one await of a client call to the next, and the upstream service   *)
(* answers each call with a status and a body of its own choosing.         *)
(***************************************************************************)
EXTENDS Integers, Sequences, FiniteSets, TLC

\* env          the two mandatory keys as os.environ gives them
\* phase        where app_lifespan is: "starting", "failed", "serving", "stopped"
\* constructed  how many AppContext objects were constructed and yielded
\* torndown     how many times app_lifespan's finally block ran
\* req          per request: the handler invoked, its suspension point (pc),
\*              its calls in flight (pending), its arguments and locals, the
\*              trace of its side effects (log) and the text it returned
VARIABLES env, phase, constructed, torndown, req

vars == <<env, phase, constructed, torndown, req>>

(* ------------------------------ bounds --------------------------------- *)

\* longest list of items a search response carries
MaxResults == 2
\* largest depth argument given to research_topic
MaxDepth == 1
\* longest limit string given to the search resource
MaxLimitLen == 2

(* --------------------------- program constants ------------------------- *)

default_search_limit == 5

(* ------------------------------ inputs --------------------------------- *)

\* the two request slots the runtime serves concurrently
Requests == {"r1", "r2"}

\* r1 may invoke any handler; r2, the request interleaved with it, any but
\* the two with the largest input spaces
Handlers == {"get_website_content", "search_web", "get_website_metadata",
             "generate_content", "summarize_text", "analyze_website",
             "research_topic"}
Workload(r) == IF r = "r1" THEN Handlers
               ELSE Handlers \ {"search_web", "research_topic"}

\* os.environ.get(KEY): None when unset, else the string
KeyValues == {"unset", "", "key"}

\* characters of a limit string
Chars == {"0", "3", "-", " ", "x"}

SeqsUpTo(S, n) == UNION {[1..k -> S] : k \in 0..n}

LimitStrings == SeqsUpTo(Chars, MaxLimitLen)

\* a search result item: url is "" when the item has no (or an empty) url
Items == {[url |-> ""], [url |-> "http://site"]}

\* upstream answers
OkStatus == 200
ScrapeBodies == {[links |-> 0], [links |-> 0, text |-> ""], [links |-> 0, text |-> "page"]}
ScrapeResponses == {[status |-> OkStatus, body |-> b] : b \in ScrapeBodies}
                   \cup {[status |-> 500, body |-> [links |-> 0]]}
SearchResponses == {[status |-> OkStatus, body |-> rs] : rs \in SeqsUpTo(Items, MaxResults)}
                   \cup {[status |-> 500, body |-> <<>>]}
GenerateResponses == {[status |-> OkStatus, body |-> "gen"], [status |-> 500, body |-> ""]}

(* ------------------------------ helpers -------------------------------- *)

\* dict.get(key, default)
Get(d, k, default) == IF k \in DOMAIN d THEN d[k] ELSE default

\* outcome of a client call: an exception or a value
Raise(msg) == [raised |-> TRUE, exc |-> msg, value |-> <<>>]
Return(v) == [raised |-> FALSE, exc |-> "", value |-> v]

(* ------------------------- Python int(str) ----------------------------- *)

IsSpace(c) == c = " "
IsDigit(c) == c \in {"0", "3"}
DigitVal(c) == IF c = "3" THEN 3 ELSE 0

RECURSIVE LStrip(_)
LStrip(s) == IF s # <<>> /\ IsSpace(Head(s)) THEN LStrip(Tail(s)) ELSE s

RECURSIVE RStrip(_)
RStrip(s) == IF s # <<>> /\ IsSpace(s[Len(s)]) THEN RStrip(SubSeq(s, 1, Len(s) - 1)) ELSE s

\* str.strip(), which int() applies to its argument
Strip(s) == RStrip(LStrip(s))

RECURSIVE DigitsValue(_)
DigitsValue(s) == IF s = <<>> THEN 0
                  ELSE 10 * DigitsValue(SubSeq(s, 1, Len(s) - 1)) + DigitVal(s[Len(s)])

AllDigits(s) == s # <<>> /\ \A k \in 1..Len(s) : IsDigit(s[k])

\* int(s): a ValueError, or the value of an optionally signed decimal literal
PyInt(s) ==
    LET t == Strip(s)
        signed == t # <<>> /\ Head(t) = "-"
        digits == IF signed THEN Tail(t) ELSE t
    IN IF AllDigits(digits)
       THEN Return(IF signed THEN 0 - DigitsValue(digits) ELSE DigitsValue(digits))
       ELSE Raise("ValueError")

(* --------------------------- upstream clients -------------------------- *)

\* scrape_website without its status check
scrape_website_unchecked(resp) == Return(resp.body)

\* FirecrawlService.scrape_website: the JSON body, or an exception on a non-200
scrape_website(resp) ==
    IF resp.status # OkStatus THEN Raise("Firecrawl API error") ELSE Return(resp.body)

\* FirecrawlService.search_web: the "results" list, or an exception on a non-200
search_web_client(resp) ==
    IF resp.status # OkStatus THEN Raise("Firecrawl API error") ELSE Return(resp.body)

\* GroqService.generate_text: the first choice's content, or an exception
generate_text(resp) ==
    IF resp.status # OkStatus THEN Raise("Groq API error") ELSE Return(resp.body)

\* GroqService.summarize_content delegates to generate_text with its own prompt
summarize_content(resp) == generate_text(resp)

(* --------------------------- request records --------------------------- *)

NoResult == [head |-> <<"(none)">>, sources |-> <<>>]

IdleRequest ==
    [handler |-> "none", pc |-> "idle", pending |-> {}, include_summary |-> FALSE,
     depth |-> 0, limit |-> <<>>, search_results |-> <<>>, i |-> 0,
     research_data |-> <<>>, log |-> <<>>, result |-> NoResult]

\* entries of a request's log: progress reports, calls issued, calls answered
\* (an answer records the status, a scrape's text and a search's result count)
Progress(value, total) ==
    [ev |-> "progress", svc |-> "", idx |-> value, n |-> total, text |-> "", count |-> 0]
Call(svc, idx, n) ==
    [ev |-> "call", svc |-> svc, idx |-> idx, n |-> n, text |-> "", count |-> 0]
Answer(c, resp) ==
    [ev |-> "answer", svc |-> c.svc, idx |-> c.idx, n |-> resp.status,
     text |-> IF c.svc = "scrape" THEN Get(resp.body, "text", "") ELSE "",
     count |-> IF c.svc = "search" THEN Len(resp.body) ELSE 0]

\* await ctx.report_progress(value, total)
report_progress(q, value, total) == [q EXCEPT !.log = Append(@, Progress(value, total))]

\* the handler awaits a client call: the request goes out and the handler suspends
Await(q, svc, idx, n, pc) ==
    [q EXCEPT !.pending = @ \cup {Call(svc, idx, n)},
              !.log = Append(@, Call(svc, idx, n)),
              !.pc = pc]

\* the awaited call is answered
Resume(q, c, resp) ==
    [q EXCEPT !.pending = @ \ {c}, !.log = Append(@, Answer(c, resp))]

\* the handler returns a string (pc "raised" would be an exception leaving it)
ReturnText(q, head, sources) ==
    [q EXCEPT !.pc = "returned", !.result = [head |-> head, sources |-> sources]]

\* except Exception as e: return f"Error <doing>: {str(e)}"
ExceptReturn(q, doing) == ReturnText(q, <<"Error">> \o doing, <<>>)

(* ---------------------------- resource handlers ------------------------ *)

\* get_website_content, up to its await of the scrape
website_begin(q) ==
    Await([q EXCEPT !.handler = "get_website_content"], "scrape", 0, 0, "await_scrape")

\* get_website_content, from the scrape's answer to its return
website_end(q, out) ==
    IF out.raised THEN ExceptReturn(q, <<"scraping", "website:">>)
    ELSE ReturnText(q, <<Get(out.value, "text", "No content found")>>, <<>>)

\* the limit taken as `int(limit) or default`: a parsed 0 falls back as well
limit_int_or_default(limit) ==
    IF limit = <<>> THEN default_search_limit
    ELSE IF PyInt(limit).raised THEN default_search_limit
    ELSE IF PyInt(limit).value = 0 THEN default_search_limit
    ELSE PyInt(limit).value

\* search_web's limit argument: int(limit) if limit else the default, and the
\* default on a ValueError
limit_int(limit) ==
    IF limit = <<>> THEN default_search_limit
    ELSE IF PyInt(limit).raised THEN default_search_limit
    ELSE PyInt(limit).value

\* search_web, up to its await of the search
search_begin(q, limit) ==
    Await([q EXCEPT !.handler = "search_web", !.limit = limit],
          "search", 0, limit_int(limit), "await_search")

\* search_web, from the search's answer to its return
search_end(q, out) ==
    IF out.raised THEN ExceptReturn(q, <<"searching", "web:">>)
    ELSE ReturnText(q, IF out.value = <<>> THEN <<>> ELSE <<"Result", "1:">>, <<>>)

\* get_website_metadata, up to its await of the scrape
metadata_begin(q) ==
    Await([q EXCEPT !.handler = "get_website_metadata"], "scrape", 0, 0, "await_scrape")

\* get_website_metadata, from the scrape's answer to its return
metadata_end(q, out) ==
    IF out.raised THEN ExceptReturn(q, <<"getting", "metadata:">>)
    ELSE ReturnText(q, <<"Title:">>, <<>>)

(* --------------------------------- tools ------------------------------- *)

\* generate_content, up to its await of the generation
generate_begin(q) ==
    Await([q EXCEPT !.handler = "generate_content"], "generate", 0, 0, "await_generate")

\* generate_content, from the generation's answer to its return
generate_end(q, out) ==
    IF out.raised THEN ExceptReturn(q, <<"generating", "content:">>)
    ELSE ReturnText(q, <<out.value>>, <<>>)

\* summarize_text, up to its await of the summary
summarize_begin(q) ==
    Await([q EXCEPT !.handler = "summarize_text"], "summarize", 0, 0, "await_summarize")

\* summarize_text, from the summary's answer to its return
summarize_end(q, out) ==
    IF out.raised THEN ExceptReturn(q, <<"summarizing", "content:">>)
    ELSE ReturnText(q, <<out.value>>, <<>>)

\* analyze_website, step 1 up to its await of the scrape
analyze_begin(q, include_summary) ==
    Await(report_progress([q EXCEPT !.handler = "analyze_website",
                                    !.include_summary = include_summary], 0, 3),
          "scrape", 0, 0, "await_scrape")

\* analyze_website summarizing whenever there is content, whatever include_summary
analyze_scraped_always(q, out) ==
    IF out.raised THEN ExceptReturn(q, <<"analyzing", "website:">>)
    ELSE LET content == Get(out.value, "text", "")
             q1 == report_progress(q, 1, 3)
         IN IF content # ""
            THEN Await(report_progress(q1, 2, 3), "summarize", 0, 0, "await_summarize")
            ELSE ReturnText(report_progress(q1, 3, 3), <<"Website", "Analysis:">>, <<>>)

\* analyze_website, steps 2 and 3 from the scrape's answer
analyze_scraped(q, out) ==
    IF out.raised THEN ExceptReturn(q, <<"analyzing", "website:">>)
    ELSE LET content == Get(out.value, "text", "")
             q1 == report_progress(q, 1, 3)
         IN IF q.include_summary /\ content # ""
            THEN Await(report_progress(q1, 2, 3), "summarize", 0, 0, "await_summarize")
            ELSE ReturnText(report_progress(q1, 3, 3), <<"Website", "Analysis:">>, <<>>)

\* analyze_website, from the summary's answer to its return
analyze_summarized(q, out) ==
    IF out.raised THEN ExceptReturn(q, <<"analyzing", "website:">>)
    ELSE ReturnText(report_progress(q, 3, 3), <<"Website", "Analysis:">>, <<>>)

(* ----------------------------- research_topic -------------------------- *)

\* a line of research_data; idx is the 1-based rank of the search result it is about
Line(kind, idx) == [kind |-> kind, idx |-> idx]

\* the four lines of a source block
SourceBlock(idx) == <<Line("Source", idx), Line("URL", idx), Line("Summary", idx), Line("", 0)>>

\* first rank >= k whose item has a url (the loop's `continue` on a falsy url);
\* Len + 1 when no such item is left
RECURSIVE NextUrlIndex(_, _)
NextUrlIndex(results, k) ==
    IF k > Len(results) THEN k
    ELSE IF Get(results[k], "url", "") # "" THEN k
    ELSE NextUrlIndex(results, k + 1)

\* step 1 up to the await of the search
research_begin(q, depth) ==
    Await(report_progress([q EXCEPT !.handler = "research_topic", !.depth = depth],
                          0, depth + 1),
          "search", 0, depth, "await_search")

\* step 3: the synthesis call when research_data is non-empty, else the
\* "could not gather" text
research_finish(q) ==
    IF q.research_data # <<>>
    THEN Await(q, "generate", 0, 0, "await_synthesis")
    ELSE ReturnText(q, <<"Could", "not", "gather">>, <<>>)

\* the loop started as a fan-out: every remaining url-bearing result's scrape
\* issued at once
research_loop_gather(q, k) ==
    LET js == {j \in k..Len(q.search_results) : Get(q.search_results[j], "url", "") # ""}
        j0 == NextUrlIndex(q.search_results, k)
    IN IF js = {} THEN research_finish(q)
       ELSE [Await(report_progress([q EXCEPT !.i = j0], j0, q.depth + 1),
                   "scrape", j0, 0, "await_scrape")
               EXCEPT !.pending = {Call("scrape", j, 0) : j \in js}]

\* the loop reporting a result's progress after its scrape is issued
research_loop_late_report(q, k) ==
    LET j == NextUrlIndex(q.search_results, k)
    IN IF j > Len(q.search_results) THEN research_finish(q)
       ELSE report_progress(Await([q EXCEPT !.i = j], "scrape", j, 0, "await_scrape"),
                            j, q.depth + 1)

\* step 2 from rank k on: up to the await of the next scrape, or on to step 3
research_loop(q, k) ==
    LET j == NextUrlIndex(q.search_results, k)
    IN IF j > Len(q.search_results) THEN research_finish(q)
       ELSE Await(report_progress([q EXCEPT !.i = j], j, q.depth + 1),
                  "scrape", j, 0, "await_scrape")

\* research_topic without its check for an empty result list
research_searched_unchecked(q, out) ==
    IF out.raised THEN ExceptReturn(q, <<"researching", "topic:">>)
    ELSE research_loop([q EXCEPT !.search_results = out.value], 1)

\* from the search's answer into the loop
research_searched(q, out) ==
    IF out.raised THEN ExceptReturn(q, <<"researching", "topic:">>)
    ELSE IF out.value = <<>> THEN ReturnText(q, <<"No", "search", "results", "found">>, <<>>)
    ELSE research_loop([q EXCEPT !.search_results = out.value], 1)

\* except Exception as inner_e: one error line for the current source
inner_except(q) == [q EXCEPT !.research_data = Append(@, Line("Error", q.i))]

\* research_topic's scrape without the per-source guard: a failure goes to the
\* outer handler
research_scraped_unguarded(q, out) ==
    IF out.raised THEN ExceptReturn(q, <<"researching", "topic:">>)
    ELSE IF Get(out.value, "text", "") # ""
         THEN Await(q, "summarize", q.i, 0, "await_summarize")
         ELSE research_loop(q, q.i + 1)

\* from the answer of the scrape of source i
research_scraped(q, out) ==
    IF out.raised THEN research_loop(inner_except(q), q.i + 1)
    ELSE IF Get(out.value, "text", "") # ""
         THEN Await(q, "summarize", q.i, 0, "await_summarize")
         ELSE research_loop(q, q.i + 1)

\* the summary's block put in front of research_data instead of at its end
research_summarized_prepend(q, out) ==
    IF out.raised THEN research_loop(inner_except(q), q.i + 1)
    ELSE research_loop([q EXCEPT !.research_data = SourceBlock(q.i) \o @], q.i + 1)

\* from the answer of the summary of source i
research_summarized(q, out) ==
    IF out.raised THEN research_loop(inner_except(q), q.i + 1)
    ELSE research_loop([q EXCEPT !.research_data = @ \o SourceBlock(q.i)], q.i + 1)

\* from the synthesis' answer to the return
research_synthesized(q, out) ==
    IF out.raised THEN ExceptReturn(q, <<"researching", "topic:">>)
    ELSE ReturnText(q, <<"#", "Research", "on:">>, q.research_data)

(* ------------------------------- lifespan ------------------------------ *)

\* Python truthiness of os.environ.get(KEY)
Truthy(v) == v \notin {"unset", ""}

\* app_lifespan checking the first key only
KeysAccepted_groq_only(e) == Truthy(e.groq)

\* app_lifespan up to its yield: TRUE when neither check raises ValueError
KeysAccepted(e) == Truthy(e.groq) /\ Truthy(e.firecrawl)

Init ==
    /\ env \in [groq : KeyValues, firecrawl : KeyValues]
    /\ phase = "starting"
    /\ constructed = 0
    /\ torndown = 0
    /\ req = [r \in Requests |-> IdleRequest]

\* app_lifespan from entry to the yield of the AppContext, or to the ValueError
LifespanEnter ==
    /\ phase = "starting"
    /\ phase' = IF KeysAccepted(env) THEN "serving" ELSE "failed"
    /\ constructed' = IF KeysAccepted(env) THEN constructed + 1 ELSE constructed
    /\ UNCHANGED <<env, torndown, req>>

\* app_lifespan's finally block, once the server stops serving
LifespanExit ==
    /\ phase = "serving"
    /\ \A r \in Requests : req[r].pending = {}
    /\ phase' = "stopped"
    /\ torndown' = torndown + 1
    /\ UNCHANGED <<env, constructed, req>>

(* ------------------------------- actions ------------------------------- *)

CanStart(r, h) == phase = "serving" /\ req[r].pc = "idle" /\ h \in Workload(r)

Set(r, q) == req' = [req EXCEPT ![r] = q] /\ UNCHANGED <<env, phase, constructed, torndown>>

\* the pending call of r, when r runs handler h suspended at pc
Awaiting(r, h, pc, c) ==
    /\ phase = "serving"
    /\ req[r].handler = h
    /\ req[r].pc = pc
    /\ c \in req[r].pending

StartWebsite(r) == CanStart(r, "get_website_content") /\ Set(r, website_begin(req[r]))

WebsiteAnswered(r) ==
    \E c \in req[r].pending, resp \in ScrapeResponses :
        /\ Awaiting(r, "get_website_content", "await_scrape", c)
        /\ Set(r, website_end(Resume(req[r], c, resp), scrape_website(resp)))

StartSearch(r) ==
    \E limit \in LimitStrings :
        CanStart(r, "search_web") /\ Set(r, search_begin(req[r], limit))

SearchAnswered(r) ==
    \E c \in req[r].pending, resp \in SearchResponses :
        /\ Awaiting(r, "search_web", "await_search", c)
        /\ Set(r, search_end(Resume(req[r], c, resp), search_web_client(resp)))

StartMetadata(r) == CanStart(r, "get_website_metadata") /\ Set(r, metadata_begin(req[r]))

MetadataAnswered(r) ==
    \E c \in req[r].pending, resp \in ScrapeResponses :
        /\ Awaiting(r, "get_website_metadata", "await_scrape", c)
        /\ Set(r, metadata_end(Resume(req[r], c, resp), scrape_website(resp)))

StartGenerate(r) == CanStart(r, "generate_content") /\ Set(r, generate_begin(req[r]))

GenerateAnswered(r) ==
    \E c \in req[r].pending, resp \in GenerateResponses :
        /\ Awaiting(r, "generate_content", "await_generate", c)
        /\ Set(r, generate_end(Resume(req[r], c, resp), generate_text(resp)))

StartSummarize(r) == CanStart(r, "summarize_text") /\ Set(r, summarize_begin(req[r]))

SummarizeAnswered(r) ==
    \E c \in req[r].pending, resp \in GenerateResponses :
        /\ Awaiting(r, "summarize_text", "await_summarize", c)
        /\ Set(r, summarize_end(Resume(req[r], c, resp), summarize_content(resp)))

StartAnalyze(r) ==
    \E include_summary \in BOOLEAN :
        CanStart(r, "analyze_website") /\ Set(r, analyze_begin(req[r], include_summary))

AnalyzeScraped(r) ==
    \E c \in req[r].pending, resp \in ScrapeResponses :
        /\ Awaiting(r, "analyze_website", "await_scrape", c)
        /\ Set(r, analyze_scraped(Resume(req[r], c, resp), scrape_website(resp)))

AnalyzeSummarized(r) ==
    \E c \in req[r].pending, resp \in GenerateResponses :
        /\ Awaiting(r, "analyze_website", "await_summarize", c)
        /\ Set(r, analyze_summarized(Resume(req[r], c, resp), summarize_content(resp)))

StartResearch(r) ==
    \E depth \in 0..MaxDepth :
        CanStart(r, "research_topic") /\ Set(r, research_begin(req[r], depth))

ResearchSearched(r) ==
    \E c \in req[r].pending, resp \in SearchResponses :
        /\ Awaiting(r, "research_topic", "await_search", c)
        /\ Set(r, research_searched(Resume(req[r], c, resp), search_web_client(resp)))

ResearchScraped(r) ==
    \E c \in req[r].pending, resp \in ScrapeResponses :
        /\ Awaiting(r, "research_topic", "await_scrape", c)
        /\ Set(r, research_scraped(Resume(req[r], c, resp), scrape_website(resp)))

ResearchSummarized(r) ==
    \E c \in req[r].pending, resp \in GenerateResponses :
        /\ Awaiting(r, "research_topic", "await_summarize", c)
        /\ Set(r, research_summarized(Resume(req[r], c, resp), summarize_content(resp)))

ResearchSynthesized(r) ==
    \E c \in req[r].pending, resp \in GenerateResponses :
        /\ Awaiting(r, "research_topic", "await_synthesis", c)
        /\ Set(r, research_synthesized(Resume(req[r], c, resp), generate_text(resp)))

Next ==
    \/ LifespanEnter
    \/ LifespanExit
    \/ \E r \in Requests : StartWebsite(r)
    \/ \E r \in Requests : WebsiteAnswered(r)
    \/ \E r \in Requests : StartSearch(r)
    \/ \E r \in Requests : SearchAnswered(r)
    \/ \E r \in Requests : StartMetadata(r)
    \/ \E r \in Requests : MetadataAnswered(r)
    \/ \E r \in Requests : StartGenerate(r)
    \/ \E r \in Requests : GenerateAnswered(r)
    \/ \E r \in Requests : StartSummarize(r)
    \/ \E r \in Requests : SummarizeAnswered(r)
    \/ \E r \in Requests : StartAnalyze(r)
    \/ \E r \in Requests : AnalyzeScraped(r)
    \/ \E r \in Requests : AnalyzeSummarized(r)
    \/ \E r \in Requests : StartResearch(r)
    \/ \E r \in Requests : ResearchSearched(r)
    \/ \E r \in Requests : ResearchScraped(r)
    \/ \E r \in Requests : ResearchSummarized(r)
    \/ \E r \in Requests : ResearchSynthesized(r)

Spec == Init /\ [][Next]_vars

(* ======================= properties of the handlers ==================== *)

\* positions of a log
Pos(q) == 1..Len(q.log)
IsCall(e, svc, idx) == e.ev = "call" /\ e.svc = svc /\ e.idx = idx
IsAnswer(e, svc, idx) == e.ev = "answer" /\ e.svc = svc /\ e.idx = idx
Failed(e) == e.ev = "answer" /\ e.n # 200
NCalls(q, svcs) == Cardinality({k \in Pos(q) : q.log[k].ev = "call" /\ q.log[k].svc \in svcs})
GenerationSvcs == {"generate", "summarize"}

Finished(q) == q.pc \in {"returned", "raised"}
ErrorText(q) == q.result.head # <<>> /\ Head(q.result.head) = "Error"
HasLine(q, kind, idx) ==
    \E k \in 1..Len(q.research_data) : q.research_data[k] = [kind |-> kind, idx |-> idx]
HasKind(q, kind) == \E k \in 1..Len(q.research_data) : q.research_data[k].kind = kind

\* a per-source call of research_topic: the scrape or the summary of a ranked result
PerSource(q, e) == q.handler = "research_topic" /\ e.svc \in {"scrape", "summarize"} /\ e.idx > 0

\* research_topic has left its loop over a non-empty result list
LoopDone(q) ==
    /\ q.handler = "research_topic"
    /\ q.search_results # <<>>
    /\ q.pc \in {"await_synthesis", "returned", "raised"}

\* C1 as stated: whenever any upstream call of a finished handler was answered
\* with a non-200 status, the handler returned an "Error ..." text and no
\* exception left it.
C1_AnyFailureGivesErrorText ==
    \A r \in Requests :
        (Finished(req[r]) /\ \E k \in Pos(req[r]) : Failed(req[r].log[k]))
            => (req[r].pc = "returned" /\ ErrorText(req[r]))

\* C1 amended: no exception ever leaves a handler; a non-200 answer to any call
\* other than research_topic's per-source scrape and summary makes the handler
\* return an "Error ..." text; a non-200 answer to a per-source call is recorded
\* as an inline error line for that source.
C1_FailuresSurfaceAsText ==
    \A r \in Requests :
        /\ req[r].pc # "raised"
        /\ \A k \in Pos(req[r]) :
              Failed(req[r].log[k]) =>
                  IF PerSource(req[r], req[r].log[k])
                  THEN HasLine(req[r], "Error", req[r].log[k].idx)
                  ELSE req[r].pc = "returned" /\ ErrorText(req[r])

\* C1 witness: research_topic returned its report although a source's scrape
\* failed, while another handler returned an error text for a failed call
C1_Witness ==
    /\ req["r1"].handler = "research_topic" /\ req["r1"].pc = "returned"
    /\ ~ErrorText(req["r1"])
    /\ \E k \in Pos(req["r1"]) : Failed(req["r1"].log[k]) /\ req["r1"].log[k].svc = "scrape"
    /\ req["r2"].pc = "returned" /\ ErrorText(req["r2"])
    /\ \E k \in Pos(req["r2"]) : Failed(req["r2"].log[k])

\* C2: a handler runs only when both keys are non-empty; the context is
\* constructed only then, at most once, and torn down once after it was
\* constructed; with a key missing or empty startup ends in the ValueError
\* with nothing constructed.
C2_NoHandlerWithoutKeys ==
    LET keys == env.groq = "key" /\ env.firecrawl = "key"
    IN /\ (\E r \in Requests : req[r].pc # "idle") => keys
       /\ ~keys => (constructed = 0 /\ torndown = 0 /\ phase \in {"starting", "failed"})
       /\ phase = "serving" => (keys /\ constructed = 1 /\ torndown = 0)
       /\ phase = "stopped" => (keys /\ constructed = 1 /\ torndown = 1)
       /\ phase = "failed" => ~keys

\* C2 witness: both keys set, a handler has run, the context was torn down
C2_Witness ==
    /\ phase = "stopped" /\ constructed = 1 /\ torndown = 1
    /\ req["r1"].pc = "returned"

\* C3: once research_topic's loop is over, every result with a url was scraped
\* and, if its scrape gave text, summarized, whatever failed before it; every
\* failed source has its inline error line; and with at least one source
\* block gathered the synthesis call is issued.
C3_FailureDoesNotStopLoop ==
    \A r \in Requests :
        LET q == req[r]
        IN LoopDone(q) =>
            /\ \A j \in 1..Len(q.search_results) :
                  q.search_results[j].url # "" =>
                      /\ \E k \in Pos(q) : IsCall(q.log[k], "scrape", j)
                      /\ (\E k \in Pos(q) : IsAnswer(q.log[k], "scrape", j)
                                             /\ q.log[k].n = 200 /\ q.log[k].text # "")
                            => \E k \in Pos(q) : IsCall(q.log[k], "summarize", j)
            /\ \A k \in Pos(q) :
                  (Failed(q.log[k]) /\ PerSource(q, q.log[k])) => HasLine(q, "Error", q.log[k].idx)
            /\ HasKind(q, "Source") => \E k \in Pos(q) : IsCall(q.log[k], "generate", 0)

\* C3 witness: the first source failed, the second was scraped and summarized,
\* and the report was synthesized
C3_Witness ==
    LET q == req["r1"]
    IN /\ LoopDone(q) /\ q.pc = "returned"
       /\ q.result.head = <<"#", "Research", "on:">>
       /\ HasLine(q, "Error", 1) /\ HasLine(q, "Source", 2)

\* the lines of research_data that open an entry of the Sources section
Entries(q) == SelectSeq(q.research_data, LAMBDA l : l.kind \in {"Source", "Error"})

\* C4 as stated: with search results but no source block gathered,
\* research_topic issues no synthesis call and returns the "could not gather"
\* text.
C4_NoBlockNoSynthesis ==
    \A r \in Requests :
        LET q == req[r]
        IN (LoopDone(q) /\ ~HasKind(q, "Source")) =>
              /\ ~\E k \in Pos(q) : IsCall(q.log[k], "generate", 0)
              /\ q.pc = "returned" /\ q.result.head = <<"Could", "not", "gather">>

\* C5: the entries of research_data (source blocks and inline error lines) are
\* in strictly increasing rank order, so each result contributes at most one;
\* a source block is the four lines of one rank; and the returned report's
\* Sources section is research_data.
C5_SourcesInRankOrder ==
    \A r \in Requests :
        LET q == req[r]
            es == Entries(q)
        IN /\ \A k \in 1..Len(es) : es[k].idx \in 1..Len(q.search_results)
           /\ \A k \in 1..(Len(es) - 1) : es[k].idx < es[k + 1].idx
           /\ \A k \in 1..Len(q.research_data) :
                 q.research_data[k].kind = "Source" =>
                    /\ k + 3 <= Len(q.research_data)
                    /\ q.research_data[k + 1] = [kind |-> "URL", idx |-> q.research_data[k].idx]
                    /\ q.research_data[k + 2] = [kind |-> "Summary", idx |-> q.research_data[k].idx]
           /\ (q.pc = "returned" /\ q.result.head = <<"#", "Research", "on:">>)
                 => q.result.sources = q.research_data

\* C5 witness: a returned report whose Sources section holds a source block
\* and an error line of two different ranks
C5_Witness ==
    LET q == req["r1"]
    IN /\ q.pc = "returned" /\ q.result.head = <<"#", "Research", "on:">>
       /\ Len(Entries(q)) >= 2
       /\ \E a, b \in 1..Len(q.result.sources) :
             q.result.sources[a].kind = "Source" /\ q.result.sources[b].kind = "Error"

\* C6: when the search is answered with an empty result list, research_topic
\* has returned the "no results" text, having issued one search call and no
\* scrape, summary or synthesis call.
C6_EmptySearchStopsResearch ==
    \A r \in Requests :
        LET q == req[r]
        IN (q.handler = "research_topic"
            /\ \E k \in Pos(q) : IsAnswer(q.log[k], "search", 0)
                                  /\ q.log[k].n = 200 /\ q.log[k].count = 0)
           => /\ q.pc = "returned"
              /\ q.result.head = <<"No", "search", "results", "found">>
              /\ NCalls(q, {"search"}) = 1
              /\ NCalls(q, {"scrape"}) = 0
              /\ NCalls(q, GenerationSvcs) = 0

\* C6 witness: research_topic with depth 0 whose search came back empty
C6_Witness ==
    LET q == req["r1"]
    IN /\ q.handler = "research_topic" /\ q.depth = 0 /\ q.pc = "returned"
       /\ q.result.head = <<"No", "search", "results", "found">>
       /\ \E k \in Pos(q) : IsAnswer(q.log[k], "search", 0) /\ q.log[k].count = 0

\* C7: analyze_website never has more than one generation call; it has one
\* only with include_summary true and a scrape answered 200 with non-empty
\* text, and when it returns in that case it has exactly one.
C7_AnalyzeGenerationCalls ==
    \A r \in Requests :
        LET q == req[r]
            wanted == /\ q.include_summary
                      /\ \E k \in Pos(q) : IsAnswer(q.log[k], "scrape", 0)
                                            /\ q.log[k].n = 200 /\ q.log[k].text # ""
        IN q.handler = "analyze_website" =>
              /\ NCalls(q, GenerationSvcs) <= 1
              /\ NCalls(q, GenerationSvcs) = 1 => wanted
              /\ (Finished(q) /\ wanted) => NCalls(q, GenerationSvcs) = 1

\* C7 witness: analyze_website returned without a generation call although the
\* scrape gave text, include_summary being false, while another analysis
\* made its one call
C7_Witness ==
    /\ \E r \in Requests :
          /\ req[r].handler = "analyze_website" /\ req[r].pc = "returned"
          /\ ~req[r].include_summary
          /\ \E k \in Pos(req[r]) : IsAnswer(req[r].log[k], "scrape", 0) /\ req[r].log[k].text # ""
          /\ NCalls(req[r], GenerationSvcs) = 0
    /\ \E r \in Requests :
          /\ req[r].handler = "analyze_website" /\ req[r].pc = "returned"
          /\ req[r].include_summary /\ NCalls(req[r], GenerationSvcs) = 1

\* the call and answer entries of a log, without the progress reports
NetLog(q) == SelectSeq(q.log, LAMBDA e : e.ev # "progress")
CallLog(q) == SelectSeq(q.log, LAMBDA e : e.ev = "call")

\* place of a call in research_topic's documented order: the search, then per
\* rank the scrape and its summary, then the synthesis
StepOf(q, c) ==
    IF c.svc = "search" THEN 0
    ELSE IF c.svc = "scrape" THEN 2 * c.idx
    ELSE IF c.svc = "summarize" THEN 2 * c.idx + 1
    ELSE 2 * Len(q.search_results) + 2

\* C8: the search resource never ends in an exception, and its one search call
\* carries the default limit 5 when the limit string is empty or no integer
\* literal, and the literal's value otherwise.
C8_SearchLimitFallback ==
    \A r \in Requests :
        LET q == req[r]
        IN q.handler = "search_web" =>
              /\ q.pc # "raised"
              /\ Len(CallLog(q)) = 1
              /\ CallLog(q)[1].svc = "search"
              /\ CallLog(q)[1].n = IF q.limit = <<>> \/ PyInt(q.limit).raised
                                   THEN 5
                                   ELSE PyInt(q.limit).value

\* C8 witness: the search issued with the default limit for the limit "x",
\* which is no integer
C8_Witness ==
    LET q == req["r1"]
    IN /\ q.handler = "search_web" /\ q.pc = "returned"
       /\ q.limit = <<"x">>
       /\ CallLog(q)[1].n = 5

\* C9: a request never has more than one call outstanding, and every call is
\* answered before the next one is issued; research_topic's calls are the
\* search, then in rank order each url-bearing result's scrape, followed at
\* once by its summary only when that scrape was answered 200 with text, and
\* the synthesis only after every url-bearing result was scraped;
\* analyze_website's calls are the scrape and then at most the summary.
C9_OneCallAtATimeInOrder ==
    \A r \in Requests :
        LET q == req[r]
            net == NetLog(q)
            calls == CallLog(q)
        IN /\ Cardinality(q.pending) <= 1
           /\ \A k \in 1..Len(net) :
                 IF k % 2 = 1
                 THEN net[k].ev = "call" /\ (k = Len(net) => q.pending = {net[k]})
                 ELSE net[k].ev = "answer" /\ net[k].svc = net[k - 1].svc
                      /\ net[k].idx = net[k - 1].idx
           /\ (Len(net) % 2 = 0) => q.pending = {}
           /\ q.handler = "research_topic" =>
                 /\ calls # <<>> => calls[1].svc = "search"
                 /\ \A k \in 1..(Len(calls) - 1) : StepOf(q, calls[k]) < StepOf(q, calls[k + 1])
                 /\ \A k \in 1..Len(calls) :
                       /\ calls[k].svc = "scrape" =>
                             /\ calls[k].idx \in 1..Len(q.search_results)
                             /\ q.search_results[calls[k].idx].url # ""
                       /\ calls[k].svc = "summarize" =>
                             /\ k > 1 /\ calls[k - 1] = Call("scrape", calls[k].idx, 0)
                             /\ \E m \in Pos(q) : IsAnswer(q.log[m], "scrape", calls[k].idx)
                                                   /\ q.log[m].n = 200 /\ q.log[m].text # ""
                       /\ calls[k].svc = "generate" =>
                             \A j \in 1..Len(q.search_results) :
                                 q.search_results[j].url # "" =>
                                     \E m \in 1..(k - 1) : calls[m] = Call("scrape", j, 0)
           /\ q.handler = "analyze_website" =>
                 /\ Len(calls) <= 2
                 /\ calls # <<>> => calls[1].svc = "scrape"
                 /\ Len(calls) = 2 => calls[2].svc = "summarize"

\* C9 witness: research_topic waits for the scrape of its second result, the
\* first one scraped and summarized, while an interleaved analyze_website
\* waits for its summary
C9_Witness ==
    /\ req["r1"].handler = "research_topic" /\ req["r1"].pc = "await_scrape"
    /\ req["r1"].i = 2 /\ HasLine(req["r1"], "Source", 1)
    /\ req["r2"].handler = "analyze_website" /\ req["r2"].pc = "await_summarize"

\* positions of the progress reports with the given value
ProgressAt(q, value) == {k \in Pos(q) : q.log[k].ev = "progress" /\ q.log[k].idx = value}

\* C10 as stated: every result whose scrape and summary have completed or
\* failed has exactly one progress report (index+1)/(depth+1), emitted after
\* that completion.
C10_ProgressAfterEachItem ==
    \A r \in Requests :
        LET q == req[r]
        IN q.handler = "research_topic" =>
              \A j \in 1..Len(q.search_results) :
                  \A m \in Pos(q) :
                      (/\ IsAnswer(q.log[m], "scrape", j) \/ IsAnswer(q.log[m], "summarize", j)
                       /\ Call("summarize", j, 0) \notin q.pending)
                      => /\ Cardinality(ProgressAt(q, j)) = 1
                         /\ \A p \in ProgressAt(q, j) : p > m /\ q.log[p].n = q.depth + 1

\* C10 amended: research_topic's log opens with the report 0/(depth+1) followed
\* by the search call; every report has total depth+1; a result of rank k that
\* has a url gets exactly one report k/(depth+1), emitted right before its
\* scrape is issued (so after the results before it are done); a result
\* without a url gets none.
C10_ProgressBeforeEachScrape ==
    \A r \in Requests :
        LET q == req[r]
        IN q.handler = "research_topic" =>
              /\ Len(q.log) >= 2
              /\ q.log[1] = Progress(0, q.depth + 1)
              /\ IsCall(q.log[2], "search", 0)
              /\ ProgressAt(q, 0) = {1}
              /\ \A k \in Pos(q) : q.log[k].ev = "progress" => q.log[k].n = q.depth + 1
              /\ \A k \in Pos(q) :
                    IsCall(q.log[k], "scrape", q.log[k].idx) =>
                        /\ q.log[k - 1] = Progress(q.log[k].idx, q.depth + 1)
                        /\ ProgressAt(q, q.log[k].idx) = {k - 1}
              /\ \A k \in Pos(q) :
                    (q.log[k].ev = "progress" /\ q.log[k].idx > 0) =>
                        /\ k < Len(q.log)
                        /\ IsCall(q.log[k + 1], "scrape", q.log[k].idx)
              /\ \A j \in 1..Len(q.search_results) :
                    q.search_results[j].url = "" => ProgressAt(q, j) = {}

\* C10 witness: the loop is over for two results, the first without a url and
\* unreported, the second reported as 2/(depth+1) before its scrape
C10_Witness ==
    LET q == req["r1"]
    IN /\ LoopDone(q) /\ Len(q.search_results) = 2
       /\ q.search_results[1].url = "" /\ q.search_results[2].url # ""
       /\ ProgressAt(q, 1) = {} /\ Cardinality(ProgressAt(q, 2)) = 1
       /\ \E k \in Pos(q) : IsAnswer(q.log[k], "scrape", 2)

====
